---- MODULE Spec2Model ----
(***************************************************************************)
(* Model of the ESP32 gate controller firmware                             *)
(* (src/portones-fc-firmware/src/main.cpp).                                *)
(*                                                                         *)
(* The firmware is one thread: loop() checks the MQTT connection (and      *)
(* blocks in reconnectMQTT() until it is back), services the MQTT client   *)
(* (which may invoke mqttCallback for one inbound message), calls          *)
(* updateGateState() and sleeps 10 ms.  Every function runs to completion. *)
(* millis() is a 32-bit unsigned counter; it is kept here at its exact     *)
(* width as a pair of 16-bit limbs <<hi, lo>>.                             *)
(***************************************************************************)
EXTENDS Integers, Sequences, FiniteSets, TLC

VARIABLES
    currentState,   \* GateState currentState                     (main.cpp:35)
    gateOpenTime,   \* unsigned long gateOpenTime, as <<hi, lo>>  (main.cpp:36)
    servo,          \* last angle written to gateServo
    connected,      \* mqttClient.connected()
    clock,          \* the value millis() returns, as <<hi, lo>>
    pc,             \* where the single thread stands inside loop()
    attempts,       \* history: status of every mqttClient.publish() call
    published,      \* history: status of every publish() call that was sent
    writes,         \* history: number of gateServo.write() calls
    now,            \* history: real milliseconds since the initial state
                    \*          (exact under Spec; stops counting at MaxTime)
    openedNow,      \* history: value of now at the last openGate()
    lastTickNow,    \* history: value of now at the last updateGateState(), -1 if none
    last            \* history: the last step of loop() and what it was given

vars == <<currentState, gateOpenTime, servo, connected, clock, pc, attempts,
          published, writes, now, openedNow, lastTickNow, last>>

gateVars == <<currentState, gateOpenTime, servo, attempts, published, writes, openedNow>>

----------------------------------------------------------------------------
(* Bounds of the model *)

\* Real time (ms) the safety specification follows the firmware for.
MaxTime == 11000

\* Inbound OPEN commands, link drops and publish failures stop once this many
\* status publications have been attempted.
MaxPub == 4

\* Durations (ms) a delay(10) plus the rest of a loop iteration may take.
Deltas == {1000, 4000, 5000}

\* Durations (ms) of a step in the liveness specification: 2^28 ms, so that
\* the 32-bit clock runs through its whole range in sixteen steps.
LiveDeltas == {2^28}

\* Durations (ms) one mqttClient.publish() call may block for: it returns at
\* once, or after a while, or only when GATE_OPEN_DURATION has gone by.
PublishTimes == {0, 1000, 5000}

\* The same in the liveness specification.
LivePublishTimes == {0, 2^28}

\* Values of millis() when setup() returns: after the delay(1000) of boot,
\* after one more delay(5000) of a failed connect(), and 3000 ms before the
\* 32-bit counter wraps (2^32 - 3000).
StartClocks == {<<0, 1000>>, <<0, 6000>>, <<65535, 62536>>}

----------------------------------------------------------------------------
(* Program constants *)

GATE_OPEN_DURATION == 5000
SERVO_CLOSED_POSITION == 0
SERVO_OPEN_POSITION == 90
RECONNECT_DELAY == 5000
LOOP_DELAY == 10

STATUS_ONLINE == "online"
STATUS_OPEN == "open"
STATUS_CLOSED == "closed"

GateState == {"IDLE", "OPENING", "OPEN", "CLOSING"}

----------------------------------------------------------------------------
(* unsigned long: 32-bit modular arithmetic on <<hi, lo>> limb pairs *)

Limb == 2^16

FromNat(n) == <<(n \div Limb) % Limb, n % Limb>>

Add32(a, b) ==
    LET lo == a[2] + b[2]
    IN  <<(a[1] + b[1] + (lo \div Limb)) % Limb, lo % Limb>>

Sub32(a, b) ==
    LET lo == a[2] - b[2]
        borrow == IF lo < 0 THEN 1 ELSE 0
    IN  <<(a[1] - b[1] - borrow + Limb) % Limb, (lo + Limb) % Limb>>

Ge32(a, b) == a[1] > b[1] \/ (a[1] = b[1] /\ a[2] >= b[2])

Min(a, b) == IF a <= b THEN a ELSE b

----------------------------------------------------------------------------
(* Inbound messages: a payload either fails to parse or is a JSON object,  *)
(* modelled as a function from field names to typed values.                *)

NULL == [type |-> "null", v |-> ""]
JStr(s) == [type |-> "string", v |-> s]
JInt(n) == [type |-> "int", v |-> ToString(n)]

\* A payload that is not JSON, e.g. the truncated text {"action":"OPEN"
Malformed == [wellFormed |-> FALSE, fields |-> [action |-> JStr("OPEN")]]
Json(f) == [wellFormed |-> TRUE, fields |-> f]

Payloads ==
    { Malformed,
      Json([timestamp |-> JStr("t")]),
      Json([action |-> JInt(5)]),
      Json([action |-> JStr("CLOSE")]),
      Json([action |-> JStr("open")]),
      Json([action |-> JStr("OPEN")]),
      Json([action |-> JStr("OPEN"), gateId |-> JInt(1)]),
      Json([action |-> JStr("OPEN"), gateId |-> JInt(9)]) }

NoMsg == [wellFormed |-> FALSE, fields |-> [none |-> NULL]]

\* doc[key] converted to const char*: the string, or NULL when the key is
\* missing or its value is not a string.
JsonString(doc, key) ==
    IF key \in DOMAIN doc.fields /\ doc.fields[key].type = "string"
    THEN doc.fields[key]
    ELSE NULL

\* Variant of ExtractAction: the DeserializationError is not tested.
ExtractActionUnchecked(payload) == JsonString(payload, "action")

\* mqttCallback: the action handed to processGateCommand, NULL when the
\* payload does not parse or has no action.
ExtractAction(payload) ==
    IF ~payload.wellFormed THEN NULL ELSE JsonString(payload, "action")

----------------------------------------------------------------------------
(* The decisions of the gate state machine *)

\* Variant of Expired: compares millis() with gateOpenTime + GATE_OPEN_DURATION.
ExpiredAbsolute(currentTime, openTime) ==
    Ge32(currentTime, Add32(openTime, FromNat(GATE_OPEN_DURATION)))

\* Variant of Expired: the open timestamp is not subtracted.
ExpiredNoSub(currentTime, openTime) ==
    Ge32(currentTime, FromNat(GATE_OPEN_DURATION))

\* Variant of Expired: the comparison is strict.
ExpiredStrict(currentTime, openTime) ==
    ~Ge32(FromNat(GATE_OPEN_DURATION), Sub32(currentTime, openTime))

\* updateGateState: currentTime - gateOpenTime >= GATE_OPEN_DURATION, in
\* unsigned long arithmetic.
Expired(currentTime, openTime) ==
    Ge32(Sub32(currentTime, openTime), FromNat(GATE_OPEN_DURATION))

\* Variant of ShouldClose: the state is not tested.
ShouldCloseAnyState(state, currentTime, openTime) ==
    Expired(currentTime, openTime)

\* updateGateState: whether this call reaches closeGate().
ShouldClose(state, currentTime, openTime) ==
    state = "OPEN" /\ Expired(currentTime, openTime)

\* Variant of IsOpenAction: the comparison ignores case.
IsOpenActionNoCase(action) == action \in {JStr("OPEN"), JStr("open")}

\* processGateCommand: strcmp(action, "OPEN") == 0.
IsOpenAction(action) == action = JStr("OPEN")

\* Variant of ShouldOpen: only the transient states count as busy.
ShouldOpenUnlessMoving(action, state) ==
    IsOpenAction(action) /\ state \notin {"OPENING", "CLOSING"}

\* Variant of ShouldOpen: the state is not tested.
ShouldOpenAnyState(action, state) == IsOpenAction(action)

\* processGateCommand: whether this call reaches openGate().
ShouldOpen(action, state) == IsOpenAction(action) /\ state = "IDLE"

\* The outcomes of one mqttClient.publish() call: it is sent when the link is
\* up; the link may drop right before the call.
LinkOutcomes ==
    IF connected /\ Len(attempts) < MaxPub THEN BOOLEAN ELSE {connected}

\* The outcomes <<linkUp, stillUp>> of reconnectMQTT() after a connect() that
\* succeeded: the link as publish("online") finds it, and as the while
\* condition finds it afterwards.  A link that is down stays down.
ConnectOutcomes ==
    IF Len(attempts) < MaxPub
    THEN {<<TRUE, TRUE>>, <<TRUE, FALSE>>, <<FALSE, FALSE>>}
    ELSE {<<TRUE, TRUE>>}

\* Variant of Publish: a failed call is made a second time.
PublishRetry(status, linkUp) ==
    /\ attempts' = IF linkUp THEN Append(attempts, status)
                             ELSE Append(Append(attempts, status), status)
    /\ published' = IF linkUp THEN Append(published, status) ELSE published

\* mqttClient.publish("portones/gate/status", {"status": status}) with the
\* link up or down at the time of the call.
Publish(status, linkUp) ==
    /\ attempts' = Append(attempts, status)
    /\ published' = IF linkUp THEN Append(published, status) ELSE published

\* Time consumed by a step: millis() and real time advance together.  A step
\* that calls nothing that blocks takes no time of its own; what it takes is
\* counted in the delay that follows.
Elapse(d) ==
    /\ clock' = Add32(clock, FromNat(d))
    /\ now' = Min(now + d, MaxTime)

NoTime == UNCHANGED <<clock, now>>

----------------------------------------------------------------------------
(* Initial state: setup() has returned.  The servo was written to the      *)
(* closed position, the MQTT client is connected and has announced itself. *)

\* n times the status "online".
Onlines(n) == [i \in 1..n |-> STATUS_ONLINE]

\* What the reconnectMQTT() of setup() may have handed to publish(): its
\* while loop makes one pass for every connect() that succeeds, each pass
\* calls publish("online"), and it repeats for as long as the link is lost
\* before or after that call.  The last pass got its status published; any of
\* the earlier ones may have.  As in loop(), the link is lost only while fewer
\* than MaxPub publications have been attempted.
BootHistories ==
    { h \in [attempts : {Onlines(n) : n \in 1..(MaxPub + 1)},
             published : {Onlines(m) : m \in 1..(MaxPub + 1)}] :
        Len(h.published) <= Len(h.attempts) }

Init ==
    /\ currentState = "IDLE"
    /\ gateOpenTime = <<0, 0>>
    /\ servo = SERVO_CLOSED_POSITION
    /\ connected = TRUE
    /\ clock \in StartClocks
    /\ pc = "check"
    /\ \E h \in BootHistories :
          /\ attempts = h.attempts
          /\ published = h.published
    /\ writes = 1
    /\ now = 0
    /\ openedNow = 0
    /\ lastTickNow = -1
    /\ last = [op |-> "setup", msg |-> NoMsg, pre |-> "IDLE"]

----------------------------------------------------------------------------
(* openGate() and closeGate(), run to completion.  A publish() that fails  *)
(* has found the link down, and leaves the client disconnected.            *)

\* Variant of OpenGateStates: the assignment of OPEN is missing.
OpenGateStatesStuck == <<"OPENING">>

\* The values openGate() and closeGate() assign to currentState, in order.
\* Nothing else runs between the assignments, so a function leaves the last.
OpenGateStates == <<"OPENING", "OPEN">>
CloseGateStates == <<"CLOSING", "IDLE">>

StateOnReturn(assigned) == assigned[Len(assigned)]

\* Variant of OpenGate: gateOpenTime is not set.
OpenGateNoStamp(linkUp) ==
    /\ currentState' = StateOnReturn(OpenGateStates)
    /\ servo' = SERVO_OPEN_POSITION
    /\ writes' = writes + 1
    /\ gateOpenTime' = gateOpenTime
    /\ openedNow' = now
    /\ Publish(STATUS_OPEN, linkUp)
    /\ connected' = linkUp

OpenGate(linkUp) ==
    /\ currentState' = StateOnReturn(OpenGateStates)
    /\ servo' = SERVO_OPEN_POSITION
    /\ writes' = writes + 1
    /\ gateOpenTime' = clock
    /\ openedNow' = now
    /\ Publish(STATUS_OPEN, linkUp)
    /\ connected' = linkUp

\* Variant of CloseGate: the servo is not written.
CloseGateNoServo(linkUp) ==
    /\ currentState' = StateOnReturn(CloseGateStates)
    /\ UNCHANGED <<servo, writes, gateOpenTime, openedNow>>
    /\ Publish(STATUS_CLOSED, linkUp)
    /\ connected' = linkUp

CloseGate(linkUp) ==
    /\ currentState' = StateOnReturn(CloseGateStates)
    /\ servo' = SERVO_CLOSED_POSITION
    /\ writes' = writes + 1
    /\ UNCHANGED <<gateOpenTime, openedNow>>
    /\ Publish(STATUS_CLOSED, linkUp)
    /\ connected' = linkUp

----------------------------------------------------------------------------
(* The steps of loop() *)

\* loop(): if (!mqttClient.connected()) reconnectMQTT();
CheckConnection ==
    /\ pc = "check"
    /\ pc' = IF connected THEN "mqtt" ELSE "connecting"
    /\ last' = [op |-> "check", msg |-> NoMsg, pre |-> currentState]
    /\ NoTime
    /\ UNCHANGED <<gateVars, connected, lastTickNow>>

\* Variant of ConnectOk: the servo is written to the closed position again,
\* as setup() does.
ConnectOkResetServo(d) ==
    /\ pc = "connecting"
    /\ \E o \in ConnectOutcomes :
          /\ Publish(STATUS_ONLINE, o[1])
          /\ connected' = o[2]
          /\ pc' = IF o[2] THEN "mqtt" ELSE "connecting"
    /\ servo' = SERVO_CLOSED_POSITION
    /\ writes' = writes + 1
    /\ last' = [op |-> "connect", msg |-> NoMsg, pre |-> currentState]
    /\ Elapse(d)
    /\ UNCHANGED <<currentState, gateOpenTime, openedNow, lastTickNow>>

\* reconnectMQTT(): connect() succeeds; subscribe, publish "online" (which
\* takes d ms), and leave the while loop if the client is connected when the
\* condition is tested again.
ConnectOk(d) ==
    /\ pc = "connecting"
    /\ \E o \in ConnectOutcomes :
          /\ Publish(STATUS_ONLINE, o[1])
          /\ connected' = o[2]
          /\ pc' = IF o[2] THEN "mqtt" ELSE "connecting"
    /\ last' = [op |-> "connect", msg |-> NoMsg, pre |-> currentState]
    /\ Elapse(d)
    /\ UNCHANGED <<currentState, gateOpenTime, servo, writes, openedNow, lastTickNow>>

\* reconnectMQTT(): connect() fails; go on to delay(5000).
ConnectFail ==
    /\ pc = "connecting"
    /\ pc' = "retry"
    /\ last' = [op |-> "connect", msg |-> NoMsg, pre |-> currentState]
    /\ NoTime
    /\ UNCHANGED <<gateVars, connected, lastTickNow>>

\* reconnectMQTT(): delay(5000), then the while condition is tested again.
RetryDelay(d) ==
    /\ pc = "retry"
    /\ d >= RECONNECT_DELAY
    /\ Elapse(d)
    /\ pc' = "connecting"
    /\ last' = [op |-> "retry", msg |-> NoMsg, pre |-> currentState]
    /\ UNCHANGED <<gateVars, connected, lastTickNow>>

\* mqttClient.loop() with nothing to deliver (or not connected any more).
MqttLoopIdle ==
    /\ pc = "mqtt"
    /\ pc' = "tick"
    /\ last' = [op |-> "mqtt", msg |-> NoMsg, pre |-> currentState]
    /\ NoTime
    /\ UNCHANGED <<gateVars, connected, lastTickNow>>

\* mqttClient.loop() delivers one message: mqttCallback(payload), which
\* parses it and calls processGateCommand(action) when there is an action.
\* The publish() of openGate() comes after gateOpenTime = millis() and takes
\* d ms.
MqttLoopDeliver(payload, d) ==
    /\ pc = "mqtt"
    /\ connected
    /\ LET action == ExtractAction(payload) IN
         IF action # NULL /\ ShouldOpen(action, currentState)
         THEN /\ Len(attempts) < MaxPub
              /\ \E linkUp \in LinkOutcomes : OpenGate(linkUp)
              /\ Elapse(d)
         ELSE /\ d = 0
              /\ NoTime
              /\ UNCHANGED <<gateVars, connected>>
    /\ pc' = "tick"
    /\ last' = [op |-> "command", msg |-> payload, pre |-> currentState]
    /\ UNCHANGED lastTickNow

\* updateGateState(): millis() is sampled first; the publish() of closeGate()
\* takes d ms.
UpdateGateState(d) ==
    /\ pc = "tick"
    /\ IF ShouldClose(currentState, clock, gateOpenTime)
       THEN /\ \E linkUp \in LinkOutcomes : CloseGate(linkUp)
            /\ Elapse(d)
       ELSE /\ d = 0
            /\ NoTime
            /\ UNCHANGED <<gateVars, connected>>
    /\ pc' = "delay"
    /\ lastTickNow' = now
    /\ last' = [op |-> "tick", msg |-> NoMsg, pre |-> currentState]

\* delay(10) and the return to the top of loop()
LoopDelay(d) ==
    /\ pc = "delay"
    /\ d >= LOOP_DELAY
    /\ Elapse(d)
    /\ pc' = "check"
    /\ last' = [op |-> "delay", msg |-> NoMsg, pre |-> currentState]
    /\ UNCHANGED <<gateVars, connected, lastTickNow>>

\* The network: the connection to the broker is lost.
Disconnect ==
    /\ connected
    /\ Len(attempts) < MaxPub
    /\ connected' = FALSE
    /\ UNCHANGED <<gateVars, clock, pc, now, lastTickNow, last>>

----------------------------------------------------------------------------
(* Specifications *)

\* Safety: time is followed exactly, up to MaxTime.
Next ==
    \/ CheckConnection
    \/ \E d \in PublishTimes : now + d <= MaxTime /\ ConnectOk(d)
    \/ ConnectFail
    \/ \E d \in Deltas : now + d <= MaxTime /\ RetryDelay(d)
    \/ MqttLoopIdle
    \/ \E payload \in Payloads, d \in PublishTimes :
          now + d <= MaxTime /\ MqttLoopDeliver(payload, d)
    \/ \E d \in PublishTimes : now + d <= MaxTime /\ UpdateGateState(d)
    \/ \E d \in Deltas : now + d <= MaxTime /\ LoopDelay(d)
    \/ Disconnect

Spec == Init /\ [][Next]_vars

\* Liveness: time runs on for ever in coarse steps; the thread is always
\* scheduled, the network and the broker are not obliged to do anything.
LoopStep ==
    \/ CheckConnection
    \/ \E d \in LivePublishTimes : ConnectOk(d)
    \/ ConnectFail
    \/ \E d \in LiveDeltas : RetryDelay(d)
    \/ MqttLoopIdle
    \/ \E payload \in Payloads, d \in LivePublishTimes : MqttLoopDeliver(payload, d)
    \/ \E d \in LivePublishTimes : UpdateGateState(d)
    \/ \E d \in LiveDeltas : LoopDelay(d)

NextLive == LoopStep \/ Disconnect

LiveSpec == Init /\ [][NextLive]_vars /\ WF_vars(LoopStep)

----------------------------------------------------------------------------
(* Vocabulary of the properties *)

\* The step being taken is the call of updateGateState() from loop().
TickStep == pc = "tick" /\ pc' = "delay"

\* The step being taken is mqttClient.loop() delivering a message.
CommandStep == pc = "mqtt" /\ last'.op = "command"

\* The step being taken delivers a message whose action is "OPEN".
OpenCommandStep == CommandStep /\ IsOpenAction(ExtractAction(last'.msg))

\* Real milliseconds since the gate was last opened.
RealElapsed == now - openedNow

\* The statuses of a publication history that report the gate (not "online").
IsGateStatus(s) == s # "online"
GateStatuses(seq) == SelectSeq(seq, IsGateStatus)

\* A history of gate statuses alternates open, closed, open, ...
Alternates(seq, first, second) ==
    \A i \in 1..Len(seq) : seq[i] = IF i % 2 = 1 THEN first ELSE second

\* sub is what is left of seq after dropping some of its entries.
RECURSIVE IsSubSeq(_, _)
IsSubSeq(sub, seq) ==
    IF sub = <<>> THEN TRUE
    ELSE IF seq = <<>> THEN FALSE
    ELSE IF Head(sub) = Head(seq) THEN IsSubSeq(Tail(sub), Tail(seq))
    ELSE IsSubSeq(sub, Tail(seq))

\* The last step was a tick taken with the gate open, and it closed the gate.
JustClosed ==
    /\ pc = "delay"
    /\ last.op = "tick"
    /\ last.pre = "OPEN"
    /\ currentState = "IDLE"

----------------------------------------------------------------------------
(* C1 *)

\* C1: deadline correctness.  A call of updateGateState() with the gate OPEN,
\* sampled less than GATE_OPEN_DURATION ms of real time after the opening,
\* leaves the gate OPEN and does nothing; a call sampled at or after the
\* deadline makes the gate IDLE, with exactly one servo write and one
\* closed publication attempt.
C1_DeadlineCorrect ==
    [][ (TickStep /\ currentState = "OPEN") =>
          IF RealElapsed < GATE_OPEN_DURATION
          THEN UNCHANGED gateVars
          ELSE /\ currentState' = "IDLE"
               /\ servo' = SERVO_CLOSED_POSITION
               /\ writes' = writes + 1
               /\ attempts' = Append(attempts, STATUS_CLOSED) ]_vars

\* A tick has just closed the gate exactly GATE_OPEN_DURATION after it opened.
C1_Witness == JustClosed /\ RealElapsed = GATE_OPEN_DURATION

----------------------------------------------------------------------------
(* C2 *)

\* C2: busy-drop.  An "OPEN" command handled while the gate is not IDLE
\* changes nothing of the gate: no publication attempt, no servo write, no
\* change of state or timestamp.  Nothing is queued: the gate leaves IDLE
\* only within a step that itself delivers an "OPEN" command.
C2_BusyDrop ==
    [][ /\ (OpenCommandStep /\ currentState # "IDLE") => UNCHANGED gateVars
        /\ (currentState = "IDLE" /\ currentState' # "IDLE") => OpenCommandStep
      ]_vars

\* An "OPEN" command has just been handled with the gate already OPEN.
C2_Witness ==
    /\ last.op = "command"
    /\ IsOpenAction(ExtractAction(last.msg))
    /\ last.pre = "OPEN"
    /\ currentState = "OPEN"

----------------------------------------------------------------------------
(* C3 *)

\* C3 as stated: the open and closed statuses that were published strictly
\* alternate, beginning with open.
C3_Original == Alternates(GateStatuses(published), STATUS_OPEN, STATUS_CLOSED)

\* C3, amended: the open and closed statuses handed to mqttClient.publish()
\* strictly alternate, beginning with open, and what was published is what
\* is left of them after the failed publications.
C3_AttemptsAlternate ==
    /\ Alternates(GateStatuses(attempts), STATUS_OPEN, STATUS_CLOSED)
    /\ IsSubSeq(published, attempts)

\* Two complete open cycles have been announced.
C3_Witness ==
    GateStatuses(attempts) = <<STATUS_OPEN, STATUS_CLOSED, STATUS_OPEN, STATUS_CLOSED>>

----------------------------------------------------------------------------
(* C4 *)

\* C4: whenever the gate is OPEN it is eventually IDLE again, whatever the
\* commands and the connection do, as long as the thread keeps running.
C4_EventuallyClosed == (currentState = "OPEN") ~> (currentState = "IDLE")

----------------------------------------------------------------------------
(* C5 *)

\* C5: bounded close time.  The tick that closes the gate is sampled no
\* earlier than GATE_OPEN_DURATION after the opening, and no later than
\* GATE_OPEN_DURATION plus the time since the previous tick.
C5_BoundedClose ==
    [][ (TickStep /\ currentState = "OPEN" /\ currentState' = "IDLE") =>
          /\ RealElapsed >= GATE_OPEN_DURATION
          /\ (lastTickNow >= 0 =>
                RealElapsed <= GATE_OPEN_DURATION + (now - lastTickNow)) ]_vars

\* A tick has just closed the gate some time after the deadline had passed.
C5_Witness ==
    /\ JustClosed
    /\ RealElapsed > GATE_OPEN_DURATION
    /\ RealElapsed < 2 * GATE_OPEN_DURATION

----------------------------------------------------------------------------
(* C6 *)

\* The gate identifiers of the single-gate firmware.
ValidGateIds == {JInt(1)}

\* The payload names a gate that does not exist.
UnknownGate(payload) ==
    /\ payload.wellFormed
    /\ "gateId" \in DOMAIN payload.fields
    /\ payload.fields["gateId"] \notin ValidGateIds

\* C6: a command whose gateId is outside [1, N] changes nothing of the gate.
C6_UnknownGateDropped ==
    [][ (CommandStep /\ UnknownGate(last'.msg)) => UNCHANGED gateVars ]_vars

----------------------------------------------------------------------------
(* C7 *)

\* C7: every status published on the status topic is "online", "OPEN" or
\* "CLOSED": an accepted open publishes "OPEN" and a close publishes "CLOSED".
C7_Original ==
    \A i \in 1..Len(published) : published[i] \in {"online", "OPEN", "CLOSED"}

----------------------------------------------------------------------------
(* C8 *)

\* The deadline gateOpenTime + GATE_OPEN_DURATION lies beyond the wrap of the
\* 32-bit counter.
OpenedBeforeWrap ==
    ~Ge32(Add32(gateOpenTime, FromNat(GATE_OPEN_DURATION)), gateOpenTime)

\* C8: wraparound safety.  While the gate is OPEN the unsigned difference
\* millis() - gateOpenTime is the real elapsed time modulo 2^32, and a gate
\* opened less than GATE_OPEN_DURATION before the wrap is closed by a tick
\* exactly when GATE_OPEN_DURATION or more real time has elapsed.
C8_WrapSafe ==
    /\ [](currentState = "OPEN" => Sub32(clock, gateOpenTime) = FromNat(RealElapsed))
    /\ [][ (TickStep /\ currentState = "OPEN" /\ OpenedBeforeWrap) =>
             (currentState' = "IDLE" <=> RealElapsed >= GATE_OPEN_DURATION) ]_vars

\* A gate opened before the wrap has just been closed, after the wrap,
\* exactly GATE_OPEN_DURATION later.
C8_Witness ==
    /\ JustClosed
    /\ OpenedBeforeWrap
    /\ ~Ge32(clock, gateOpenTime)
    /\ RealElapsed = GATE_OPEN_DURATION

----------------------------------------------------------------------------
(* C9 *)

\* C9: single deadline.  A command handled while the gate is OPEN leaves the
\* open timestamp and the state alone, and the timestamp is written only by
\* a step that takes the gate from IDLE to OPEN.
C9_SingleDeadline ==
    [][ /\ (CommandStep /\ currentState = "OPEN")
             => UNCHANGED <<gateOpenTime, openedNow, currentState>>
        /\ (gateOpenTime' # gateOpenTime \/ openedNow' # openedNow)
             => (currentState = "IDLE" /\ currentState' = "OPEN") ]_vars

\* A second "OPEN" command has just been handled in the middle of an open
\* cycle, and the timestamp is still that of the opening.
C9_Witness ==
    /\ last.op = "command"
    /\ IsOpenAction(ExtractAction(last.msg))
    /\ last.pre = "OPEN"
    /\ pc = "tick"
    /\ RealElapsed > 0
    /\ RealElapsed < GATE_OPEN_DURATION
    /\ Sub32(clock, gateOpenTime) = FromNat(RealElapsed)

----------------------------------------------------------------------------
(* C10 *)

\* C10: idempotent close.  A tick taken with the gate IDLE changes nothing
\* of the gate: no closed publication attempt, no servo write, no state
\* change.
C10_IdempotentClose ==
    [][ (TickStep /\ currentState = "IDLE") => UNCHANGED gateVars ]_vars

\* A tick has just run with the gate IDLE, after the gate had closed, while
\* the stale timestamp of the finished cycle is past its deadline.
C10_Witness ==
    /\ last.op = "tick"
    /\ last.pre = "IDLE"
    /\ currentState = "IDLE"
    /\ GateStatuses(attempts) = <<STATUS_OPEN, STATUS_CLOSED>>
    /\ Expired(clock, gateOpenTime)

----------------------------------------------------------------------------
(* C11 *)

\* C11: closing is scheduler-driven.  A command whose action is any string
\* other than "OPEN" changes nothing of the gate; the gate goes from OPEN to
\* IDLE only in an updateGateState() step and from IDLE to OPEN only in a
\* step that delivers an "OPEN" command.
C11_OnlyOpenActs ==
    [][ /\ (CommandStep /\ ExtractAction(last'.msg) # NULL
                        /\ ExtractAction(last'.msg) # JStr("OPEN"))
             => UNCHANGED gateVars
        /\ (currentState = "OPEN" /\ currentState' # "OPEN") => TickStep
        /\ (currentState = "IDLE" /\ currentState' # "IDLE")
             => (CommandStep /\ ExtractAction(last'.msg) = JStr("OPEN")) ]_vars

\* A "CLOSE" command has just been handled with the gate OPEN, and the gate
\* is still OPEN.
C11_Witness ==
    /\ last.op = "command"
    /\ ExtractAction(last.msg) = JStr("CLOSE")
    /\ last.pre = "OPEN"
    /\ currentState = "OPEN"
    /\ servo = SERVO_OPEN_POSITION

----------------------------------------------------------------------------
(* C12 *)

\* The payload does not parse, or parses to an object with no action field.
MalformedPayload(payload) ==
    \/ ~payload.wellFormed
    \/ "action" \notin DOMAIN payload.fields

\* C12: malformed payloads are dropped.  For a payload that does not parse or
\* has no action field mqttCallback has no action to hand to
\* processGateCommand, and the delivery changes nothing of the gate.
C12_MalformedDropped ==
    [][ (CommandStep /\ MalformedPayload(last'.msg)) =>
          /\ ExtractAction(last'.msg) = NULL
          /\ UNCHANGED gateVars ]_vars

\* A payload that does not parse (and carries the text OPEN) has just been
\* delivered with the gate IDLE, and the gate is still IDLE.
C12_Witness ==
    /\ last.op = "command"
    /\ last.msg = Malformed
    /\ last.pre = "IDLE"
    /\ currentState = "IDLE"
    /\ servo = SERVO_CLOSED_POSITION

----------------------------------------------------------------------------
(* C13 *)

\* C13 as stated: an "OPEN" command handled with the gate IDLE makes the gate
\* OPEN, sets the timestamp to the current clock value, writes the servo to
\* the open position once and gets exactly one open status published
\* (whatever the case of its letters).
C13_Original ==
    [][ (OpenCommandStep /\ currentState = "IDLE") =>
          /\ currentState' = "OPEN"
          /\ gateOpenTime' = clock
          /\ servo' = SERVO_OPEN_POSITION
          /\ writes' = writes + 1
          /\ \E s \in {"OPEN", "open"} : published' = Append(published, s) ]_vars

\* C13, amended: an "OPEN" command handled with the gate IDLE makes the gate
\* OPEN, sets the timestamp to the current clock value, writes the servo to
\* the open position once and calls mqttClient.publish() exactly once, with
\* status "open"; that status is published unless the call fails.
C13_OpenAccepted ==
    [][ (OpenCommandStep /\ currentState = "IDLE") =>
          /\ currentState' = "OPEN"
          /\ gateOpenTime' = clock
          /\ openedNow' = now
          /\ servo' = SERVO_OPEN_POSITION
          /\ writes' = writes + 1
          /\ attempts' = Append(attempts, "open")
          /\ published' \in {published, Append(published, "open")} ]_vars

\* An "OPEN" command has just been accepted: the gate is OPEN, stamped with
\* the present clock value, after an earlier cycle left another timestamp.
C13_Witness ==
    /\ last.op = "command"
    /\ IsOpenAction(ExtractAction(last.msg))
    /\ last.pre = "IDLE"
    /\ currentState = "OPEN"
    /\ pc = "tick"
    /\ gateOpenTime = clock
    /\ STATUS_CLOSED \in {attempts[i] : i \in 1..Len(attempts)}

----------------------------------------------------------------------------
(* C14 *)

\* The gate as setup() leaves it: IDLE, the servo written once, to the
\* closed position, and no open or closed status handed to publish().
BootState ==
    /\ currentState = "IDLE"
    /\ servo = SERVO_CLOSED_POSITION
    /\ writes = 1
    /\ GateStatuses(attempts) = <<>>
    /\ GateStatuses(published) = <<>>

\* C14: boot state.  After setup() the gate is in its boot state, and it
\* stays there through every step that does not handle a command: ticks,
\* delays, disconnections and reconnections.
C14_BootState ==
    /\ BootState
    /\ [][ (BootState /\ ~CommandStep) => BootState' ]_vars

\* No command has been handled, the loop has been ticking for longer than
\* GATE_OPEN_DURATION, and the gate is still in its boot state.
C14_Witness ==
    /\ BootState
    /\ last.op = "tick"
    /\ now >= GATE_OPEN_DURATION
    /\ Expired(clock, gateOpenTime)
    /\ gateOpenTime = <<0, 0>>

----------------------------------------------------------------------------
(* C15 *)

\* The status handed to the publish() call of the step being taken.
NewStatus == attempts'[Len(attempts')]

\* C15: fire-and-forget.  A step calls publish() at most once, an open or
\* closed status is handed to it only by the step that makes the transition
\* (so a failed publication is never repeated later), the transition is made
\* whether or not the call succeeds and is undone by no later step, and,
\* whatever was or was not published before, an "OPEN" command finds an IDLE
\* gate ready and a tick closes an OPEN gate that is past its deadline.
C15_FireAndForget ==
    [][ /\ attempts' # attempts => attempts' = Append(attempts, NewStatus)
        /\ (attempts' # attempts /\ NewStatus = STATUS_OPEN)
             => (currentState = "IDLE" /\ currentState' = "OPEN")
        /\ (attempts' # attempts /\ NewStatus = STATUS_CLOSED)
             => (currentState = "OPEN" /\ currentState' = "IDLE")
        /\ (attempts' # attempts /\ NewStatus = STATUS_ONLINE)
             => (pc = "connecting" /\ currentState' = currentState)
        /\ currentState' # currentState => attempts' # attempts
        /\ (OpenCommandStep /\ currentState = "IDLE") => currentState' = "OPEN"
        /\ (TickStep /\ currentState = "OPEN" /\ RealElapsed >= GATE_OPEN_DURATION)
             => currentState' = "IDLE" ]_vars

\* The open and the closed publication of a cycle both failed, and the gate
\* has been through the whole cycle all the same.
C15_Witness ==
    /\ GateStatuses(attempts) = <<STATUS_OPEN, STATUS_CLOSED>>
    /\ GateStatuses(published) = <<>>
    /\ currentState = "IDLE"
    /\ servo = SERVO_CLOSED_POSITION
    /\ writes = 3

----------------------------------------------------------------------------
(* C16 *)

\* C16: state/actuator consistency.  Between the steps of loop() the last
\* position written to the servo is the open position exactly when
\* currentState is OPEN and the closed position exactly when it is IDLE.
C16_StateMatchesServo ==
    /\ (servo = SERVO_OPEN_POSITION <=> currentState = "OPEN")
    /\ (servo = SERVO_CLOSED_POSITION <=> currentState = "IDLE")

\* The gate is OPEN for the second time, with the servo at the open position.
C16_Witness ==
    /\ currentState = "OPEN"
    /\ servo = SERVO_OPEN_POSITION
    /\ GateStatuses(attempts) = <<STATUS_OPEN, STATUS_CLOSED, STATUS_OPEN>>

----------------------------------------------------------------------------
(* C17 *)

\* C17: the transient states are not observable.  Whenever a step of loop()
\* begins, currentState is IDLE or OPEN; so an "OPEN" command is dropped only
\* when the gate is OPEN, and a tick past the deadline of a gate that is not
\* IDLE closes it.
C17_NoTransientState ==
    /\ [](currentState \in {"IDLE", "OPEN"})
    /\ [][ /\ (OpenCommandStep /\ UNCHANGED gateVars) => currentState = "OPEN"
           /\ (TickStep /\ currentState # "IDLE"
                        /\ RealElapsed >= GATE_OPEN_DURATION)
                => currentState' = "IDLE" ]_vars

\* openGate() has just returned for the first time, and the tick that
\* follows finds the gate OPEN.
C17_Witness ==
    /\ pc = "tick"
    /\ last.op = "command"
    /\ last.pre = "IDLE"
    /\ currentState = "OPEN"
    /\ GateStatuses(attempts) = <<STATUS_OPEN>>

----------------------------------------------------------------------------
(* C18 *)

\* C18: an "OPEN" command handled while currentState is still OPEN, although
\* GATE_OPEN_DURATION has already elapsed, changes nothing of the gate; the
\* tick of the same iteration then closes the gate, and an IDLE gate stays
\* IDLE through every step that does not deliver an "OPEN" command.
C18_LateOpenDropped ==
    [][ /\ (OpenCommandStep /\ currentState = "OPEN"
                            /\ RealElapsed >= GATE_OPEN_DURATION)
             => UNCHANGED gateVars
        /\ (TickStep /\ last.op = "command"
                     /\ IsOpenAction(ExtractAction(last.msg))
                     /\ last.pre = "OPEN"
                     /\ RealElapsed >= GATE_OPEN_DURATION)
             => (currentState = "OPEN" /\ currentState' = "IDLE")
        /\ (currentState = "IDLE" /\ ~OpenCommandStep) => currentState' = "IDLE"
      ]_vars

\* An "OPEN" command has just been handled with the gate OPEN and past its
\* deadline; the gate is untouched and the tick is about to run.
C18_Witness ==
    /\ pc = "tick"
    /\ last.op = "command"
    /\ IsOpenAction(ExtractAction(last.msg))
    /\ last.pre = "OPEN"
    /\ currentState = "OPEN"
    /\ RealElapsed >= GATE_OPEN_DURATION
    /\ Expired(clock, gateOpenTime)
    /\ writes = 2

----------------------------------------------------------------------------
(* C19 *)

\* The gate has been through a close already.
HasClosed == \E i \in 1..Len(attempts) : attempts[i] = STATUS_CLOSED

\* C19: re-open after close.  Once the gate has closed, an "OPEN" command
\* handled with the gate IDLE opens it and stamps it with the clock value of
\* that moment, and a tick closes the new cycle exactly when
\* GATE_OPEN_DURATION or more has elapsed since that command, whatever the
\* timestamp of the previous cycle was.
C19_FreshCycle ==
    [][ /\ (OpenCommandStep /\ currentState = "IDLE" /\ HasClosed)
             => /\ currentState' = "OPEN"
                /\ gateOpenTime' = clock
                /\ openedNow' = now
                /\ Sub32(clock', gateOpenTime') = FromNat(now' - openedNow')
        /\ (TickStep /\ currentState = "OPEN" /\ HasClosed)
             => (currentState' = "IDLE" <=> RealElapsed >= GATE_OPEN_DURATION)
      ]_vars

\* The second cycle has just been closed, exactly GATE_OPEN_DURATION after
\* the command that started it.
C19_Witness ==
    /\ JustClosed
    /\ GateStatuses(attempts) = <<STATUS_OPEN, STATUS_CLOSED, STATUS_OPEN, STATUS_CLOSED>>
    /\ openedNow >= GATE_OPEN_DURATION
    /\ RealElapsed = GATE_OPEN_DURATION

----------------------------------------------------------------------------
(* C20 *)

\* The step being taken is a connect() that succeeds, inside reconnectMQTT().
ConnectedStep == pc = "connecting" /\ pc' # "retry"

\* The step being taken is part of reconnectMQTT(), or is the loss of the
\* connection by itself.
ConnectionStep ==
    \/ pc \in {"connecting", "retry"}
    \/ (pc = "check" /\ ~connected)
    \/ (connected /\ ~connected' /\ attempts' = attempts)

\* C20 as stated: every successful connection gets "online" published
\* exactly once, and nothing that happens to the connection changes the gate
\* state, the open timestamp or the servo.
C20_Original ==
    [][ /\ ConnectedStep => published' = Append(published, STATUS_ONLINE)
        /\ ConnectionStep
             => UNCHANGED <<currentState, gateOpenTime, servo, writes>> ]_vars

\* C20, amended: every successful connection calls mqttClient.publish()
\* exactly once, with status "online", which is published unless the call
\* fails; "online" is handed to publish() by no other step; and nothing that
\* happens to the connection changes the gate state, the open timestamp or
\* the servo.
C20_OnlinePerConnection ==
    [][ /\ ConnectedStep
             => /\ attempts' = Append(attempts, "online")
                /\ published' \in {published, Append(published, "online")}
        /\ (attempts' # attempts /\ NewStatus = "online") => ConnectedStep
        /\ ConnectionStep
             => UNCHANGED <<currentState, gateOpenTime, servo, writes>> ]_vars

\* The connection was lost and made again while the gate was OPEN: "online"
\* has been published a second time and the gate is as it was.
C20_Witness ==
    /\ last.op = "connect"
    /\ pc = "mqtt"
    /\ connected
    /\ published = <<STATUS_ONLINE, STATUS_OPEN, STATUS_ONLINE>>
    /\ currentState = "OPEN"
    /\ servo = SERVO_OPEN_POSITION
    /\ writes = 2

====
